---- MODULE Spec2Model ----
(***************************************************************************)
(* The two vector-store adapters of open-webui over an OpenSearch engine:  *)
(*   - the per-collection client (retrieval/vector/dbs/opensearch.py),     *)
(*   - the global-index client   (retrieval/vector/dbs/opensearch2.py).    *)
(*                                                                         *)
(* The engine is outside the repository.  It is modelled by what each      *)
(* request of the adapters asks of it: a map from index names to indices,  *)
(* an index being its vector dimension and its documents by id.  A string  *)
(* is the sequence of its characters, so that prefixing, wildcard matching *)
(* and stripping are computed and not assumed.                             *)
(***************************************************************************)
EXTENDS Integers, Sequences, FiniteSets, TLC

VARIABLES
  indices,             \* engine: index name -> [dims, mapped, docs]
  auto_create,         \* engine setting: a write to a missing index creates it
  hash_to_index_map,   \* per-collection client: self.hash_to_index_map
  global_index_name,   \* global client: self.global_index_name (None or a name)
  global_index_file,   \* global client: content of the index-name file (NoFile or text)
  faults,              \* engine calls that have failed so far (bounded by MaxFaults)
  hist,                \* history of the global client, read by the properties only
  last,                \* the most recent call: its arguments, requests and outcome
  proc                 \* concurrent first inserts: per process, its client and position

vars == <<indices, auto_create, hash_to_index_map, global_index_name,
          global_index_file, faults, hist, last, proc>>

----------------------------------------------------------------------------
(* Bounds of the model. *)

MaxItems == 2
MaxLong == 201
MaxLimit == 1
MaxFaults == 2
NumProcs == 2

(* Program constants. *)

batch_size == 100
default_size == 10
engine_default_size == 10

----------------------------------------------------------------------------
(* Strings. *)

\* Python's None; every string is a sequence of one-character strings, so
\* this value is no string.
None == <<"None">>

index_prefix == <<"o", "p", "e", "n", "_", "w", "e", "b", "u", "i">>

\* f"{self.index_prefix}_{collection_name}"
PrefixedName(collection_name) == index_prefix \o <<"_">> \o collection_name

\* f"{self.index_prefix}_global_index"
GlobalIndexName ==
  index_prefix \o <<"_">> \o <<"g", "l", "o", "b", "a", "l", "_", "i", "n", "d", "e", "x">>

\* f"{self.index_prefix}_*"
ResetPattern == index_prefix \o <<"_", "*">>

StartsWith(s, p) == Len(s) >= Len(p) /\ SubSeq(s, 1, Len(p)) = p

\* The engine's index-name expression: a trailing * matches any rest.
WildcardMatch(pattern, name) ==
  IF pattern # <<>> /\ pattern[Len(pattern)] = "*"
  THEN StartsWith(name, SubSeq(pattern, 1, Len(pattern) - 1))
  ELSE name = pattern

Whitespace == {" ", "\n", "\t", "\r"}

RECURSIVE LStrip(_)
LStrip(s) == IF s # <<>> /\ s[1] \in Whitespace THEN LStrip(Tail(s)) ELSE s

RECURSIVE RStrip(_)
RStrip(s) ==
  IF s # <<>> /\ s[Len(s)] \in Whitespace THEN RStrip(SubSeq(s, 1, Len(s) - 1)) ELSE s

\* str.strip()
Strip(s) == RStrip(LStrip(s))

Min(a, b) == IF a <= b THEN a ELSE b

\* Python's seq[i:j] for 0 <= i <= j
Slice(s, i, j) == SubSeq(s, i + 1, Min(j, Len(s)))

----------------------------------------------------------------------------
(* The data the callers pass. *)

CollectionNames == {<<"a">>, <<"b">>}

\* The collection the callers write documents to and read them from.
DataCollections == {<<"a">>}

\* Indices of other applications on the same engine; the second is the bare
\* prefix, which is outside the namespace "open_webui_".
ForeignNames == {<<"l", "o", "g", "s">>, index_prefix}

\* The VectorItems {id, vector, text, metadata} the callers pass: two
\* documents, and a revision of the first with another vector and text.
Items ==
  {[id |-> "d1", vector |-> <<1>>, text |-> "alpha", metadata |-> "x"],
   [id |-> "d1", vector |-> <<1, 2>>, text |-> "beta", metadata |-> "x"],
   [id |-> "d2", vector |-> <<1, 2>>, text |-> "alpha", metadata |-> "y"]}

ItemLists == UNION {[1..n -> Items] : n \in 0..MaxItems}

\* The long lists of the batching check: n items with the ids 1..n.
LongItems(n) ==
  [i \in 1..n |-> [id |-> i, vector |-> <<1>>, text |-> "alpha", metadata |-> "x"]]

\* List lengths at the batch boundaries.
LongLengths == {n \in 0..MaxLong : n % batch_size \in {0, 1, batch_size - 1}}

FilterFields == {"text", "metadata"}

\* filter: dict of field -> value
Filters ==
  UNION {[D -> {"alpha", "x"}] : D \in SUBSET FilterFields}

\* Optional[int]: <<>> is None, <<n>> is n
Limits == {<<>>} \cup {<<n>> : n \in 0..MaxLimit}

IdLists == {<<"d1">>, <<"d2">>, <<"d1", "d2">>}

----------------------------------------------------------------------------
(* The engine. *)

EngineExists(idx, name) == name \in DOMAIN idx

\* indices.create(index=name, body={mappings: ... dims ...})
EngineCreate(idx, name, dims) ==
  (name :> [dims |-> dims, mapped |-> TRUE, docs |-> <<>>]) @@ idx

\* indices.delete(index=name)
EngineDelete(idx, name) == [n \in DOMAIN idx \ {name} |-> idx[n]]

\* indices.get(index=pattern): the names the expression matches
EngineGet(idx, pattern) == {n \in DOMAIN idx : WildcardMatch(pattern, n)}

\* The index a bulk action addresses: its own _index, else the request's.
ActionTarget(req, a) == IF a._index # None THEN a._index ELSE req.index

\* A bulk request is valid when every action of it addresses an index.
BulkValid(req) ==
  \A i \in 1..Len(req.actions) : ActionTarget(req, req.actions[i]) # None

PutDoc(ix, id, source) == [ix EXCEPT !.docs = (id :> source) @@ ix.docs]

\* update with doc_as_upsert: the fields of doc replace those of the
\* document; a missing document is created from doc
MergeDoc(ix, id, doc) ==
  IF id \in DOMAIN ix.docs
  THEN [ix EXCEPT !.docs[id] =
          [f \in DOMAIN ix.docs[id] \cup DOMAIN doc |->
             IF f \in DOMAIN doc THEN doc[f] ELSE ix.docs[id][f]]]
  ELSE PutDoc(ix, id, doc)

DropDoc(ix, id) == [ix EXCEPT !.docs = [d \in DOMAIN ix.docs \ {id} |-> ix.docs[d]]]

\* One action of a bulk request.  An action that addresses no index stores
\* nothing.  A write to a missing index creates the index, with no mapping
\* of the adapter, when the engine auto-creates, and fails for that item
\* otherwise.
EngineBulkAction(idx, req, a, auto) ==
  LET target == ActionTarget(req, a) IN
  IF target = None THEN idx
  ELSE IF target \notin DOMAIN idx
  THEN IF a.op # "delete" /\ auto
       THEN (target :> [dims |-> 0, mapped |-> FALSE, docs |-> (a.id :> a.source)]) @@ idx
       ELSE idx
  ELSE CASE a.op = "index" -> [idx EXCEPT ![target] = PutDoc(idx[target], a.id, a.source)]
         [] a.op = "update" -> [idx EXCEPT ![target] = MergeDoc(idx[target], a.id, a.source)]
         [] OTHER -> [idx EXCEPT ![target] = DropDoc(idx[target], a.id)]

\* The actions lo..hi of a request, applied in request order (the first
\* half, then the second on what the first left; an engine with no index
\* and no auto-creation takes no action).
RECURSIVE EngineBulkRange(_, _, _, _, _)
EngineBulkRange(idx, req, lo, hi, auto) ==
  IF lo > hi THEN idx
  ELSE IF lo = hi THEN EngineBulkAction(idx, req, req.actions[lo], auto)
  ELSE LET mid == (lo + hi) \div 2
           left == EngineBulkRange(idx, req, lo, mid, auto)
       IN IF DOMAIN left = {} /\ ~auto THEN left
          ELSE EngineBulkRange(left, req, mid + 1, hi, auto)

\* client.bulk(body, index=...)
EngineBulk(idx, req, auto) == EngineBulkRange(idx, req, 1, Len(req.actions), auto)

\* The hit lists a search may return: any size-many of the matching
\* documents (all of them when fewer match), in any order, each with the
\* _source fields text and metadata.
EngineSearch(ix, matching, size) ==
  LET k == Min(size, Cardinality(matching))
      orders == {s \in [1..k -> matching] :
                   \A i, j \in 1..k : i # j => s[i] # s[j]}
  IN {[i \in 1..k |->
         [id |-> s[i],
          source |-> [text |-> ix.docs[s[i]].text,
                      metadata |-> ix.docs[s[i]].metadata]]] : s \in orders}

----------------------------------------------------------------------------
(* What a call leaves in last. *)

NoResult == [none |-> TRUE, ids |-> <<>>, documents |-> <<>>, metadatas |-> <<>>]

Call(client, op, coll, items, arg, outcome, result, creates, bulks, searches) ==
  [client |-> client, op |-> op, coll |-> coll, items |-> items, arg |-> arg,
   outcome |-> outcome, result |-> result, creates |-> creates,
   bulks |-> bulks, searches |-> searches]

NoCall == Call("none", "none", None, <<>>, <<>>, "returned", NoResult, <<>>, <<>>, <<>>)

\* _result_to_get_result
result_to_get_result(hits) ==
  [none |-> FALSE,
   ids |-> [i \in 1..Len(hits) |-> hits[i].id],
   documents |-> [i \in 1..Len(hits) |-> hits[i].source.text],
   metadatas |-> [i \in 1..Len(hits) |-> hits[i].source.metadata]]

----------------------------------------------------------------------------
(* The per-collection client (opensearch.py). *)

\* _generate_index_name: the cached name, cached on first use
_generate_index_name(map, collection_name) ==
  IF collection_name \in DOMAIN map
  THEN [name |-> map[collection_name], map |-> map]
  ELSE [name |-> PrefixedName(collection_name),
        map |-> (collection_name :> PrefixedName(collection_name)) @@ map]

\* _create_index: create unless the engine already has the index
_create_index(idx, map, collection_name, dimension) ==
  LET g == _generate_index_name(map, collection_name) IN
  IF EngineExists(idx, g.name)
  THEN [indices |-> idx, map |-> g.map, creates |-> <<>>]
  ELSE [indices |-> EngineCreate(idx, g.name, dimension), map |-> g.map,
        creates |-> <<[index |-> g.name, dims |-> dimension]>>]

\* _create_batches: items[i : i + batch_size] for i in range(0, len(items), batch_size)
_create_batches(items) ==
  LET starts == {i \in 0..(Len(items) - 1) : i % batch_size = 0}
      count == Cardinality(starts)
  IN [k \in 1..count |-> Slice(items, (k - 1) * batch_size, (k - 1) * batch_size + batch_size)]

has_collection(idx, collection_name) == EngineExists(idx, PrefixedName(collection_name))

\* The bulk request insert builds from a batch: "index" actions that name
\* no index, in a call that names none either.
InsertRequest(batch) ==
  [index |-> None,
   actions |-> [i \in 1..Len(batch) |->
      [op |-> "index", id |-> batch[i].id, _index |-> None,
       source |-> [vector |-> batch[i].vector, text |-> batch[i].text,
                   metadata |-> batch[i].metadata]]]]

\* The bulk request upsert builds from a batch: "update" actions on index_name.
UpsertRequest(batch, index_name) ==
  [index |-> None,
   actions |-> [i \in 1..Len(batch) |->
      [op |-> "update", id |-> batch[i].id, _index |-> index_name,
       source |-> [vector |-> batch[i].vector, text |-> batch[i].text,
                   metadata |-> batch[i].metadata]]]]

\* The loop "for batch in ...: self.client.bulk(...)": one request per batch,
\* in order.  A request in which an action addresses no index is invalid:
\* the engine either rejects it, and the fault ends the call, or accepts it
\* and stores nothing for that action (rejects is the engine's choice).
RECURSIVE SendBulks(_, _, _, _, _)
SendBulks(idx, reqs, k, rejects, auto) ==
  IF k > Len(reqs)
  THEN [indices |-> idx, sent |-> reqs, outcome |-> "returned"]
  ELSE IF ~BulkValid(reqs[k]) /\ rejects
  THEN [indices |-> idx, sent |-> SubSeq(reqs, 1, k), outcome |-> "RequestError"]
  ELSE SendBulks(EngineBulk(idx, reqs[k], auto), reqs, k + 1, rejects, auto)

\* What a call of the per-collection client does to the engine and the client.
PCDone(idx, map, call) ==
  /\ indices' = idx
  /\ hash_to_index_map' = map
  /\ last' = call
  /\ UNCHANGED <<auto_create, global_index_name, global_index_file, faults, hist, proc>>

\* As EnsureIndex, with the dimension read from items[0] before the
\* existence check.
EnsureIndexEager(idx, map, collection_name, items) ==
  LET g == _generate_index_name(map, collection_name) IN
  IF items = <<>>
  THEN [indices |-> idx, map |-> g.map, creates |-> <<>>, raised |-> TRUE]
  ELSE IF EngineExists(idx, g.name)
  THEN [indices |-> idx, map |-> g.map, creates |-> <<>>, raised |-> FALSE]
  ELSE [raised |-> FALSE] @@ _create_index(idx, g.map, collection_name, Len(items[1].vector))

\* The index is ensured first; the dimension is read from items[0] only when
\* the index is missing, and an empty list then raises IndexError.
EnsureIndex(idx, map, collection_name, items) ==
  LET g == _generate_index_name(map, collection_name) IN
  IF EngineExists(idx, g.name)
  THEN [indices |-> idx, map |-> g.map, creates |-> <<>>, raised |-> FALSE]
  ELSE IF items = <<>>
  THEN [indices |-> idx, map |-> g.map, creates |-> <<>>, raised |-> TRUE]
  ELSE [raised |-> FALSE] @@ _create_index(idx, g.map, collection_name, Len(items[1].vector))

insert(collection_name, items, rejects) ==
  LET e == EnsureIndex(indices, hash_to_index_map, collection_name, items) IN
  IF e.raised
  THEN PCDone(e.indices, e.map,
              Call("pc", "insert", collection_name, items, <<>>, "IndexError",
                   NoResult, <<>>, <<>>, <<>>))
  ELSE LET batches == _create_batches(items)
           reqs == [k \in 1..Len(batches) |-> InsertRequest(batches[k])]
           b == SendBulks(e.indices, reqs, 1, rejects, auto_create)
       IN PCDone(b.indices, e.map,
                 Call("pc", "insert", collection_name, items, <<>>, b.outcome,
                      NoResult, e.creates, b.sent, <<>>))

upsert(collection_name, items) ==
  LET e == EnsureIndex(indices, hash_to_index_map, collection_name, items)
      index_name == _generate_index_name(hash_to_index_map, collection_name).name
  IN
  IF e.raised
  THEN PCDone(e.indices, e.map,
              Call("pc", "upsert", collection_name, items, <<>>, "IndexError",
                   NoResult, <<>>, <<>>, <<>>))
  ELSE LET batches == _create_batches(items)
           reqs == [k \in 1..Len(batches) |-> UpsertRequest(batches[k], index_name)]
           b == SendBulks(e.indices, reqs, 1, FALSE, auto_create)
       IN PCDone(b.indices, e.map,
                 Call("pc", "upsert", collection_name, items, <<>>, b.outcome,
                      NoResult, e.creates, b.sent, <<>>))

\* As get_or_create_index, without the existence check of has_collection
\* and of _create_index: the index is created on every call.
get_or_create_index_unchecked(collection_name, dimension) ==
  LET g == _generate_index_name(hash_to_index_map, collection_name) IN
  PCDone(EngineCreate(indices, g.name, dimension), g.map,
         Call("pc", "get_or_create_index", collection_name, <<>>, dimension,
              "returned", NoResult, <<[index |-> g.name, dims |-> dimension]>>, <<>>, <<>>))

get_or_create_index(collection_name, dimension) ==
  LET r == IF has_collection(indices, collection_name)
           THEN [indices |-> indices, map |-> hash_to_index_map, creates |-> <<>>]
           ELSE _create_index(indices, hash_to_index_map, collection_name, dimension)
  IN PCDone(r.indices, r.map,
            Call("pc", "get_or_create_index", collection_name, <<>>, dimension,
                 "returned", NoResult, r.creates, <<>>, <<>>))

\* A document passes the filter when every (field, value) term of it holds.
MatchesFilter(doc, filter) == \A f \in DOMAIN filter : doc[f] = filter[f]

\* size = limit if limit else 10
QuerySize(limit) == IF limit # <<>> /\ limit[1] # 0 THEN limit[1] ELSE default_size

query(collection_name, filter, limit) ==
  IF ~has_collection(indices, collection_name)
  THEN PCDone(indices, hash_to_index_map,
              Call("pc", "query", collection_name, <<>>, [filter |-> filter, limit |-> limit],
                   "returned", NoResult, <<>>, <<>>, <<>>))
  ELSE LET g == _generate_index_name(hash_to_index_map, collection_name)
           ix == indices[g.name]
           size == QuerySize(limit)
           matching == {d \in DOMAIN ix.docs : MatchesFilter(ix.docs[d], filter)}
       IN \E hits \in EngineSearch(ix, matching, size) :
            PCDone(indices, g.map,
                   Call("pc", "query", collection_name, <<>>,
                        [filter |-> filter, limit |-> limit], "returned",
                        result_to_get_result(hits), <<>>, <<>>,
                        <<[index |-> g.name, size |-> size]>>))

\* get: match_all with no size, so the engine's default page; a search of a
\* missing index fails.
get(collection_name) ==
  LET name == PrefixedName(collection_name) IN
  IF ~EngineExists(indices, name)
  THEN PCDone(indices, hash_to_index_map,
              Call("pc", "get", collection_name, <<>>, <<>>, "NotFoundError",
                   NoResult, <<>>, <<>>, <<[index |-> name, size |-> engine_default_size]>>))
  ELSE \E hits \in EngineSearch(indices[name], DOMAIN indices[name].docs, engine_default_size) :
         PCDone(indices, hash_to_index_map,
                Call("pc", "get", collection_name, <<>>, <<>>, "returned",
                     result_to_get_result(hits), <<>>, <<>>,
                     <<[index |-> name, size |-> engine_default_size]>>))

delete(collection_name, ids) ==
  LET req == [index |-> None,
              actions |-> [i \in 1..Len(ids) |->
                 [op |-> "delete", id |-> ids[i],
                  _index |-> PrefixedName(collection_name), source |-> <<>>]]]
  IN PCDone(EngineBulk(indices, req, auto_create), hash_to_index_map,
            Call("pc", "delete", collection_name, <<>>, ids, "returned",
                 NoResult, <<>>, <<req>>, <<>>))

delete_colleciton(collection_name) ==
  LET name == PrefixedName(collection_name) IN
  IF EngineExists(indices, name)
  THEN PCDone(EngineDelete(indices, name), hash_to_index_map,
              Call("pc", "delete_colleciton", collection_name, <<>>, <<>>, "returned",
                   NoResult, <<>>, <<>>, <<>>))
  ELSE PCDone(indices, hash_to_index_map,
              Call("pc", "delete_colleciton", collection_name, <<>>, <<>>, "NotFoundError",
                   NoResult, <<>>, <<>>, <<>>))

\* As ResetTargets, from the names the client has cached instead of the
\* engine's answer.
ResetTargetsCached(idx, map) == {map[c] : c \in DOMAIN map} \cap DOMAIN idx

\* The indices reset deletes: those indices.get(index="open_webui_*") names.
ResetTargets(idx, map) == EngineGet(idx, ResetPattern)

reset ==
  LET gone == ResetTargets(indices, hash_to_index_map) IN
  PCDone([n \in DOMAIN indices \ gone |-> indices[n]], hash_to_index_map,
         Call("pc", "reset", None, <<>>, gone, "returned", NoResult, <<>>, <<>>, <<>>))

\* __init__: a new client, for instance after a restart of the application
pc_init ==
  PCDone(indices, <<>>,
         Call("pc", "__init__", None, <<>>, <<>>, "returned", NoResult, <<>>, <<>>, <<>>))

----------------------------------------------------------------------------
(* Initial state: the engine holds the indices of other applications; no   *)
(* client has run yet.                                                     *)

NoFile == <<"NoFile">>

Procs == 1..NumProcs

ForeignDoc == [vector |-> <<1>>, text |-> "alpha", metadata |-> "x"]

\* create_sent: the index-create requests sent so far, each with its sender
\* (0: the sequential client); create_ok: how many of them succeeded;
\* created: some insert got through _get_or_create_index creating the index;
\* insert_ok: some insert returned; insert_called: some insert got as far
\* as _get_or_create_index; file_at_init: the index-name file existed when
\* the current client was constructed.
NoHist == [create_sent |-> <<>>, create_ok |-> 0, insert_ok |-> FALSE,
           created |-> FALSE, insert_called |-> FALSE, file_at_init |-> FALSE]

InitBase ==
  /\ indices = [n \in ForeignNames |->
                  [dims |-> 1, mapped |-> TRUE, docs |-> ("f1" :> ForeignDoc)]]
  /\ hash_to_index_map = <<>>
  /\ global_index_name = None
  /\ global_index_file = NoFile
  /\ faults = 0
  /\ hist = NoHist
  /\ last = NoCall
  /\ proc = [p \in Procs |-> [pc |-> "idle", name |-> None, dim |-> 0]]

Init == InitBase /\ auto_create = TRUE

Next ==
  \/ \E c \in DataCollections, items \in ItemLists, rejects \in BOOLEAN :
       insert(c, items, rejects)
  \/ \E c \in DataCollections, items \in ItemLists : upsert(c, items)
  \/ \E c \in CollectionNames, d \in 1..2 : get_or_create_index(c, d)
  \/ \E c \in DataCollections, f \in Filters, l \in Limits : query(c, f, l)
  \/ \E c \in DataCollections : get(c)
  \/ \E c \in DataCollections, ids \in IdLists : delete(c, ids)
  \/ \E c \in CollectionNames : delete_colleciton(c)
  \/ reset
  \/ pc_init

Spec == Init /\ [][Next]_vars

----------------------------------------------------------------------------
(* The batching of long lists, by the same insert and upsert. *)

NextBatch ==
  \/ \E c \in DataCollections, n \in LongLengths, rejects \in BOOLEAN :
       insert(c, LongItems(n), rejects)
  \/ \E c \in DataCollections, n \in LongLengths : upsert(c, LongItems(n))
  \/ \E c \in DataCollections : delete_colleciton(c)

SpecBatch == Init /\ [][NextBatch]_vars

----------------------------------------------------------------------------
(* The global-index client (opensearch2.py).  An engine call of insert may *)
(* fail (the request is sent and has no effect); fault names the call of   *)
(* this insert that does, and the fault propagates to the caller.          *)

FaultPoints == {"none", "exists", "create", "bulk"}

\* _load_global_index_name
_load_global_index_name(file) == IF file # NoFile THEN Strip(file) ELSE None

\* As _save_global_index_name, writing the name of the index that
\* _create_index addressed.
save_created_index_name(index_name) == PrefixedName(index_name)

\* _save_global_index_name: the file holds index_name
_save_global_index_name(index_name) == index_name

\* has_collection of the global client
global_has_collection(idx, collection_name) ==
  EngineExists(idx, PrefixedName(collection_name))

\* _create_index of the global client: the existence check and the create
\* both address f"{self.index_prefix}_{collection_name}"
global_create_index(idx, collection_name, dimension, fault, by) ==
  IF fault = "exists"
  THEN [indices |-> idx, creates |-> <<>>, ok |-> 0, faulted |-> TRUE]
  ELSE IF global_has_collection(idx, collection_name)
  THEN [indices |-> idx, creates |-> <<>>, ok |-> 0, faulted |-> FALSE]
  ELSE LET name == PrefixedName(collection_name)
           req == [index |-> name, dims |-> dimension, by |-> by]
       IN IF fault = "create"
          THEN [indices |-> idx, creates |-> <<req>>, ok |-> 0, faulted |-> TRUE]
          ELSE [indices |-> EngineCreate(idx, name, dimension), creates |-> <<req>>,
                ok |-> 1, faulted |-> FALSE]

\* _get_or_create_index: the name is set, then the index created, then the
\* name saved to the file; nothing when a name is already held
_get_or_create_index(name, file, idx, dimension, fault) ==
  IF name = None
  THEN LET new_name == GlobalIndexName
           c == global_create_index(idx, new_name, dimension, fault, 0)
       IN [name |-> new_name,
           file |-> IF c.faulted THEN file ELSE _save_global_index_name(new_name),
           indices |-> c.indices, creates |-> c.creates, ok |-> c.ok,
           faulted |-> c.faulted, created |-> ~c.faulted]
  ELSE [name |-> name, file |-> file, indices |-> idx, creates |-> <<>>, ok |-> 0,
        faulted |-> FALSE, created |-> FALSE]

\* The bulk request of the global insert: "index" actions in a call on
\* index=self.global_index_name.
GlobalInsertRequest(items, index_name) ==
  [index |-> index_name,
   actions |-> [i \in 1..Len(items) |->
      [op |-> "index", id |-> items[i].id, _index |-> None,
       source |-> [vector |-> items[i].vector, text |-> items[i].text,
                   metadata |-> items[i].metadata]]]]

GDone(idx, name, file, nfaults, h, call) ==
  /\ indices' = idx
  /\ global_index_name' = name
  /\ global_index_file' = file
  /\ faults' = nfaults
  /\ hist' = h
  /\ last' = call
  /\ UNCHANGED <<auto_create, hash_to_index_map, proc>>

global_insert(items, fault) ==
  /\ fault = "none" \/ faults < MaxFaults
  /\ IF items = <<>>
     THEN \* len(items[0]["vector"]) is evaluated before _get_or_create_index is called
          GDone(indices, global_index_name, global_index_file, faults, hist,
                Call("global", "insert", None, items, [first |-> FALSE], "IndexError",
                     NoResult, <<>>, <<>>, <<>>))
     ELSE LET g == _get_or_create_index(global_index_name, global_index_file, indices,
                                        Len(items[1].vector), fault)
              req == GlobalInsertRequest(items, g.name)
              bulk_fails == ~g.faulted /\ fault = "bulk"
              idx2 == IF g.faulted \/ bulk_fails THEN g.indices
                      ELSE EngineBulk(g.indices, req, auto_create)
              outcome == IF g.faulted \/ bulk_fails THEN "TransportError" ELSE "returned"
              h == [hist EXCEPT !.create_sent = @ \o g.creates,
                                !.create_ok = @ + g.ok,
                                !.created = @ \/ g.created,
                                !.insert_called = TRUE,
                                !.insert_ok = @ \/ (outcome = "returned")]
          IN GDone(idx2, g.name, g.file,
                   IF g.faulted \/ bulk_fails THEN faults + 1 ELSE faults, h,
                   Call("global", "insert", None, items, [first |-> ~hist.insert_called],
                        outcome, NoResult, g.creates,
                        IF g.faulted THEN <<>> ELSE <<req>>, <<>>))

\* search and get of the global client: the error when no name is held; else
\* one search request on index=self.global_index_name, which fails on a
\* missing index; the class defines no _result_to_search_result and no
\* _result_to_get_result, so reshaping the answer raises AttributeError.
GlobalRead(op, size) ==
  IF global_index_name = None
  THEN GDone(indices, global_index_name, global_index_file, faults, hist,
             Call("global", op, None, <<>>, <<>>, "ValueError", NoResult, <<>>, <<>>, <<>>))
  ELSE GDone(indices, global_index_name, global_index_file, faults, hist,
             Call("global", op, None, <<>>, <<>>,
                  IF EngineExists(indices, global_index_name)
                  THEN "AttributeError" ELSE "NotFoundError",
                  NoResult, <<>>, <<>>,
                  <<[index |-> global_index_name, size |-> size]>>))

global_search(limit) == GlobalRead("search", limit)

global_get == GlobalRead("get", engine_default_size)

\* __init__ of the global client: the name is loaded from the file
global_init ==
  GDone(indices, _load_global_index_name(global_index_file), global_index_file, faults,
        [hist EXCEPT !.file_at_init = (global_index_file # NoFile)],
        Call("global", "__init__", None, <<>>, <<>>, "returned", NoResult, <<>>, <<>>, <<>>))

InitGlobal == InitBase /\ auto_create \in BOOLEAN

NextGlobal ==
  \/ \E items \in ItemLists, fault \in FaultPoints : global_insert(items, fault)
  \/ \E limit \in 0..MaxLimit : global_search(limit)
  \/ global_get
  \/ global_init

SpecGlobal == InitGlobal /\ [][NextGlobal]_vars

----------------------------------------------------------------------------
(* Both clients on one engine, called with empty and one-item lists. *)

ShortLists == {<<>>} \cup {<<it>> : it \in {x \in Items : x.vector = <<1>>}}

NextEmpty ==
  \/ \E c \in DataCollections, items \in ShortLists, rejects \in BOOLEAN :
       insert(c, items, rejects)
  \/ \E c \in DataCollections, items \in ShortLists : upsert(c, items)
  \/ \E c \in DataCollections : delete_colleciton(c)
  \/ \E items \in ShortLists, fault \in FaultPoints : global_insert(items, fault)
  \/ pc_init
  \/ global_init

SpecEmpty == InitGlobal /\ [][NextEmpty]_vars

----------------------------------------------------------------------------
(* Processes, each with its own global-index client, inserting at the same *)
(* time: the steps of insert between which another process may run.  They *)
(* share the engine and the index-name file.                               *)

RDone(p, pc, name, dim, idx, file, h) ==
  /\ proc' = [proc EXCEPT ![p] = [pc |-> pc, name |-> name, dim |-> dim]]
  /\ indices' = idx
  /\ global_index_file' = file
  /\ hist' = h
  /\ UNCHANGED <<auto_create, hash_to_index_map, global_index_name, faults, last>>

\* insert is called with a non-empty list whose first vector has d entries;
\* _get_or_create_index tests self.global_index_name is None and sets it
race_start(p, d) ==
  /\ proc[p].pc = "idle"
  /\ IF proc[p].name = None
     THEN RDone(p, "exists", GlobalIndexName, d, indices, global_index_file, hist)
     ELSE RDone(p, "bulk", proc[p].name, d, indices, global_index_file, hist)

\* _create_index: if self.has_collection(collection_name): return
race_exists(p) ==
  /\ proc[p].pc = "exists"
  /\ RDone(p, IF global_has_collection(indices, proc[p].name) THEN "save" ELSE "create",
           proc[p].name, proc[p].dim, indices, global_index_file, hist)

\* As race_create, creating only if the index is still absent.
race_create_if_absent(p) ==
  /\ proc[p].pc = "create"
  /\ LET name == PrefixedName(proc[p].name)
         req == [index |-> name, dims |-> proc[p].dim, by |-> p]
     IN IF EngineExists(indices, name)
        THEN RDone(p, "save", proc[p].name, proc[p].dim, indices, global_index_file, hist)
        ELSE RDone(p, "save", proc[p].name, proc[p].dim,
                   EngineCreate(indices, name, proc[p].dim), global_index_file,
                   [hist EXCEPT !.create_sent = Append(@, req), !.create_ok = @ + 1])

\* _create_index: self.client.indices.create(...); the engine refuses to
\* create an index that exists, and the fault ends the insert
race_create(p) ==
  /\ proc[p].pc = "create"
  /\ LET name == PrefixedName(proc[p].name)
         req == [index |-> name, dims |-> proc[p].dim, by |-> p]
     IN IF EngineExists(indices, name)
        THEN RDone(p, "failed", proc[p].name, proc[p].dim, indices, global_index_file,
                   [hist EXCEPT !.create_sent = Append(@, req)])
        ELSE RDone(p, "save", proc[p].name, proc[p].dim,
                   EngineCreate(indices, name, proc[p].dim), global_index_file,
                   [hist EXCEPT !.create_sent = Append(@, req), !.create_ok = @ + 1])

\* _get_or_create_index: self._save_global_index_name(self.global_index_name)
race_save(p) ==
  /\ proc[p].pc = "save"
  /\ RDone(p, "bulk", proc[p].name, proc[p].dim, indices,
           _save_global_index_name(proc[p].name), hist)

\* The list a process inserts: one item whose vector has d entries.
RaceItems(d) ==
  IF d = 1 THEN <<[id |-> "d1", vector |-> <<1>>, text |-> "alpha", metadata |-> "x"]>>
  ELSE <<[id |-> "d2", vector |-> <<1, 2>>, text |-> "alpha", metadata |-> "y"]>>

\* insert: self.client.bulk(actions, index=self.global_index_name)
race_bulk(p) ==
  /\ proc[p].pc = "bulk"
  /\ RDone(p, "done", proc[p].name, proc[p].dim,
           EngineBulk(indices, GlobalInsertRequest(RaceItems(proc[p].dim), proc[p].name),
                      auto_create),
           global_index_file, hist)

\* The process starts again with a new client, which loads the file.
race_init(p) ==
  /\ proc[p].pc \in {"done", "failed"}
  /\ RDone(p, "idle", _load_global_index_name(global_index_file), 0, indices,
           global_index_file, hist)

NextRace ==
  \E p \in Procs :
    \/ \E d \in 1..2 : race_start(p, d)
    \/ race_exists(p)
    \/ race_create(p)
    \/ race_save(p)
    \/ race_bulk(p)
    \/ race_init(p)

SpecRace == InitGlobal /\ [][NextRace]_vars

----------------------------------------------------------------------------
(* The claims. *)

DistinctIds(items) ==
  \A i, j \in 1..Len(items) : i # j => items[i].id # items[j].id

\* The name of a string begins with the adapter namespace "open_webui_".
InNamespace(name) == StartsWith(name, index_prefix \o <<"_">>)

\* The item a bulk action carries.
ActionItem(a) ==
  [id |-> a.id, vector |-> a.source.vector, text |-> a.source.text,
   metadata |-> a.source.metadata]

\* The number of items in the bulk requests before the k-th.
RECURSIVE Offset(_, _)
Offset(bulks, k) ==
  IF k <= 1 THEN 0 ELSE Offset(bulks, k - 1) + Len(bulks[k - 1].actions)

IsPC(call, ops) == call.client = "pc" /\ call.op \in ops

IsGlobal(call, ops) == call.client = "global" /\ call.op \in ops

\* C1: after insert(c, items) of the per-collection client returns, for a
\* non-empty list of items with distinct ids, the index open_webui_<c>
\* holds for each item a document of the item's id with the item's text,
\* metadata and vector, and every answer of get(c) has the item with its
\* id, text and metadata.
C1_InsertedItemsRetrievable ==
  (/\ IsPC(last, {"insert"})
   /\ last.outcome = "returned"
   /\ last.items # <<>>
   /\ DistinctIds(last.items))
  => LET name == PrefixedName(last.coll) IN
     /\ name \in DOMAIN indices
     /\ \A i \in 1..Len(last.items) :
          LET it == last.items[i] IN
          /\ it.id \in DOMAIN indices[name].docs
          /\ indices[name].docs[it.id] =
               [vector |-> it.vector, text |-> it.text, metadata |-> it.metadata]
     /\ \A hits \in EngineSearch(indices[name], DOMAIN indices[name].docs,
                                 engine_default_size) :
          LET r == result_to_get_result(hits) IN
          \A i \in 1..Len(last.items) :
            \E k \in 1..Len(r.ids) :
              /\ r.ids[k] = last.items[i].id
              /\ r.documents[k] = last.items[i].text
              /\ r.metadatas[k] = last.items[i].metadata

\* C2: insert and upsert of the per-collection client, called with n items,
\* issue exactly ceil(n / 100) bulk requests, each with 1 to 100 items, and
\* the items of the requests in issue order are the input list.
C2_BatchesCoverItems ==
  IsPC(last, {"insert", "upsert"})
  => LET n == Len(last.items)
         b == last.bulks
     IN /\ Len(b) = (n + batch_size - 1) \div batch_size
        /\ \A k \in 1..Len(b) : Len(b[k].actions) \in 1..batch_size
        /\ Offset(b, Len(b) + 1) = n
        /\ \A k \in 1..Len(b) : \A j \in 1..Len(b[k].actions) :
             ActionItem(b[k].actions[j]) = last.items[Offset(b, k) + j]

\* C3: get_or_create_index(c, d) of the per-collection client creates the
\* index of c if it is absent: a missing index exists afterwards with
\* dimension d, by one create request, and nothing else of the engine
\* changes; for an existing index no create request is sent and the engine
\* is unchanged; a call that follows a call for the same collection sends
\* no create request and leaves the engine as it is.
C3_GetOrCreateIdempotent ==
  [][IsPC(last', {"get_or_create_index"})
     => LET name == PrefixedName(last'.coll) IN
        /\ name \in DOMAIN indices'
        /\ name \notin DOMAIN indices
           => /\ indices'[name].dims = last'.arg
              /\ indices'[name].docs = <<>>
              /\ last'.creates = <<[index |-> name, dims |-> last'.arg]>>
              /\ DOMAIN indices' = DOMAIN indices \cup {name}
              /\ \A n \in DOMAIN indices : indices'[n] = indices[n]
        /\ name \in DOMAIN indices
           => /\ last'.creates = <<>>
              /\ indices' = indices
        /\ (IsPC(last, {"get_or_create_index"}) /\ last.coll = last'.coll)
           => /\ last'.creates = <<>>
              /\ indices' = indices]_vars

\* A call of get_or_create_index found the index, with documents in it, and
\* sent no create request.
C3_Witness ==
  /\ IsPC(last, {"get_or_create_index"})
  /\ last.creates = <<>>
  /\ PrefixedName(last.coll) \in DOMAIN indices
  /\ indices[PrefixedName(last.coll)].docs # <<>>

\* C4 (as claimed): search and get of the global client raise the "global
\* index has not been created" error, and send no request, whenever no
\* index-name file existed at construction and no insert has created the
\* global index, in particular after an insert whose index creation failed;
\* and they do not raise it once an insert has succeeded.
C4_NotCreatedError ==
  IsGlobal(last, {"search", "get"})
  => /\ (~hist.file_at_init /\ ~hist.created)
        => (last.outcome = "ValueError" /\ last.searches = <<>>)
     /\ hist.insert_ok => last.outcome # "ValueError"

\* C5 (as claimed): over the inserts of one client of the global index and
\* of the clients constructed after it with the same file, at most one
\* index-create request is sent, it is sent during the first insert, and a
\* client constructed when the file exists holds the name the file was
\* given.
C5_SingleCreateRequest ==
  /\ Len(hist.create_sent) <= 1
  /\ (IsGlobal(last, {"insert"}) /\ last.creates # <<>>) => last.arg.first
  /\ (IsGlobal(last, {"__init__"}) /\ global_index_file # NoFile)
     => global_index_name = GlobalIndexName

\* C5 (amended): at most one index-create request succeeds; a create
\* request is sent only by an insert of a client that holds no index name,
\* while no index-name file exists and no create request has succeeded, and
\* that insert sends one; a client constructed when the file exists holds
\* the name the first successful insert gave it.
C5_SingleCreateSuccess ==
  [][/\ hist'.create_ok <= 1
     /\ hist'.create_sent # hist.create_sent
        => /\ IsGlobal(last', {"insert"})
           /\ global_index_name = None
           /\ global_index_file = NoFile
           /\ hist.create_ok = 0
           /\ Len(hist'.create_sent) = Len(hist.create_sent) + 1
     /\ (IsGlobal(last', {"__init__"}) /\ global_index_file # NoFile)
        => /\ global_index_name' = GlobalIndexName
           /\ hist.create_ok = 1]_vars

\* A create request failed, a later one succeeded, and a client constructed
\* after that inserted without sending another.
C5_Witness ==
  /\ Len(hist.create_sent) = 2
  /\ hist.create_ok = 1
  /\ hist.file_at_init
  /\ IsGlobal(last, {"insert"})
  /\ last.outcome = "returned"
  /\ last.creates = <<>>

\* C6: after reset() of the per-collection client no index whose name
\* begins with "open_webui_" exists, has_collection(c) is false for every
\* collection c, and every other index of the engine is as before.
C6_ResetClearsNamespace ==
  [][IsPC(last', {"reset"})
     => /\ \A n \in DOMAIN indices' : ~InNamespace(n)
        /\ \A c \in CollectionNames : ~has_collection(indices', c)
        /\ \A n \in DOMAIN indices :
             ~InNamespace(n) => (n \in DOMAIN indices' /\ indices'[n] = indices[n])
        /\ DOMAIN indices' \subseteq DOMAIN indices]_vars

\* reset deleted the indices of both collections, by a client that had
\* cached neither name.
C6_Witness ==
  /\ IsPC(last, {"reset"})
  /\ last.arg = {PrefixedName(c) : c \in CollectionNames}
  /\ hash_to_index_map = <<>>

\* C7 (as claimed): query(c, filter, limit) of the per-collection client
\* returns None without a search when the index of c does not exist; else
\* every document it returns matches every (field, value) pair of filter,
\* and it returns at most limit documents for every supplied limit, 0
\* included, and at most 10 when limit is omitted.
C7_QueryFilterLimit ==
  IsPC(last, {"query"})
  => LET name == PrefixedName(last.coll)
         r == last.result
     IN /\ name \notin DOMAIN indices => (r.none /\ last.searches = <<>>)
        /\ name \in DOMAIN indices
           => /\ ~r.none
              /\ \A k \in 1..Len(r.ids) :
                   /\ r.ids[k] \in DOMAIN indices[name].docs
                   /\ \A f \in DOMAIN last.arg.filter :
                        indices[name].docs[r.ids[k]][f] = last.arg.filter[f]
              /\ last.arg.limit # <<>> => Len(r.ids) <= last.arg.limit[1]
              /\ last.arg.limit = <<>> => Len(r.ids) <= default_size

\* C8 (as claimed): insert of both clients and upsert, called with an empty
\* list, raise IndexError whether or not the target index exists, send no
\* index-create and no bulk request, and change neither the engine nor the
\* index name in memory nor the index-name file.
C8_EmptyListRaises ==
  [][(last'.op \in {"insert", "upsert"} /\ last'.items = <<>>)
     => /\ last'.outcome = "IndexError"
        /\ last'.creates = <<>>
        /\ last'.bulks = <<>>
        /\ UNCHANGED <<indices, global_index_name, global_index_file>>]_vars

\* C8 (amended): called with an empty list, insert of the global client
\* raises IndexError; insert and upsert of the per-collection client raise
\* IndexError when the index of the collection does not exist and return
\* normally when it exists; in every case no index-create and no bulk
\* request is sent and the engine, the index name in memory and the
\* index-name file are unchanged; the per-collection client caches the
\* index name of the collection and changes nothing else.
C8_EmptyListRaisesIfMissing ==
  [][(last'.op \in {"insert", "upsert"} /\ last'.items = <<>>)
     => /\ last'.creates = <<>>
        /\ last'.bulks = <<>>
        /\ UNCHANGED <<indices, global_index_name, global_index_file>>
        /\ last'.client = "global"
           => (last'.outcome = "IndexError" /\ UNCHANGED hash_to_index_map)
        /\ last'.client = "pc"
           => /\ PrefixedName(last'.coll) \notin DOMAIN indices
                 => last'.outcome = "IndexError"
              /\ PrefixedName(last'.coll) \in DOMAIN indices
                 => last'.outcome = "returned"
              /\ DOMAIN hash_to_index_map' = DOMAIN hash_to_index_map \cup {last'.coll}
              /\ hash_to_index_map'[last'.coll] = PrefixedName(last'.coll)
              /\ \A c \in DOMAIN hash_to_index_map :
                   hash_to_index_map'[c] = hash_to_index_map[c]]_vars

\* insert or upsert of the per-collection client, called with an empty list
\* for a collection whose index exists, returned normally.
C8_Witness ==
  /\ IsPC(last, {"insert", "upsert"})
  /\ last.items = <<>>
  /\ last.outcome = "returned"
  /\ PrefixedName(last.coll) \in DOMAIN indices

\* C9: a process that has passed both checks of its first insert (no index
\* name in memory, the index absent from the engine) sends its index-create
\* request whatever the engine holds by then, so two processes that start
\* with no index-name file can both send a create request for the same
\* index.
C9_CreateSentAfterChecks ==
  [][\A p \in Procs :
       (proc[p].pc = "create" /\ proc'[p].pc # "create")
       => /\ Len(hist'.create_sent) = Len(hist.create_sent) + 1
          /\ hist'.create_sent[Len(hist'.create_sent)] =
               [index |-> PrefixedName(GlobalIndexName), dims |-> proc[p].dim, by |-> p]]_vars

\* Two processes have each sent a create request for the same index, and
\* the engine refused the second.
C9_Witness ==
  /\ \E i, j \in 1..Len(hist.create_sent) :
       /\ hist.create_sent[i].by # hist.create_sent[j].by
       /\ hist.create_sent[i].index = hist.create_sent[j].index
  /\ \E p \in Procs : proc[p].pc = "failed"
  /\ global_index_file = NoFile

\* C10 (as claimed): after a successful first insert of the global client,
\* the index name it holds, saved to the file and addressed by the bulk
\* request, is the name of the index its create request created, and that
\* index carries the adapter's mapping.
C10_WritesGoToCreatedIndex ==
  (/\ IsGlobal(last, {"insert"})
   /\ last.outcome = "returned"
   /\ last.creates # <<>>)
  => /\ last.creates[1].index = global_index_name
     /\ global_index_file = global_index_name
     /\ \A k \in 1..Len(last.bulks) : last.bulks[k].index = last.creates[1].index
     /\ global_index_name \in DOMAIN indices
     /\ indices[global_index_name].mapped

====
